---- MODULE Spec2Model ----
(***************************************************************************)
(* A model of the two notebooks of the repository.                         *)
(*                                                                         *)
(*   Spec       the CSV-to-Parquet conversion script (Steps 2 to 6): the   *)
(*              options, the optional cluster, the file selection, the     *)
(*              hand-built task graph and its execution by the scheduler.  *)
(*   SpecMeta   the task function _write_metadata called directly on       *)
(*              metadata lists drawn from a bounded set.                   *)
(*   SpecSplit  the train/validation path cell of the Criteo example.      *)
(*                                                                         *)
(* Python values are written as follows.  A string that the code parses    *)
(* is a sequence of one-character strings.  An optional integer is <<>>    *)
(* for None and <<n>> for n.  A file name is a tuple: <<"day_", d, exts>>  *)
(* stands for "day_<d>" followed by the extensions in exts, so that        *)
(* <<"day_", 3, <<".parquet">>>> is "day_3.parquet"; <<"_metadata">> is    *)
(* "_metadata".  A path is <<directory, file name>>.  The token that       *)
(* tokenize() appends to the two task names is the same in every key of    *)
(* one graph and is left out.                                              *)
(***************************************************************************)
EXTENDS Integers, Sequences, FiniteSets, TLC

\* ------------------------------------------------------------------ bounds
MaxDevices == 2         \* most entries written in CUDA_VISIBLE_DEVICES
MaxDayIdx == 1          \* input day files are day_0 .. day_MaxDayIdx
MaxDayOpt == 2          \* largest value given to the max_day option
ChunksPerFile == 2      \* chunks GPUFileIterator yields for one input file
MaxMdLen == 3           \* longest md_list handed to _write_metadata directly
MaxListedDays == 25     \* most day_N.parquet files in INPUT_DATA_DIR

\* -------------------------------------------------------- program constants
NUM_TRAIN_DAYS == 23

VARIABLES
    \* conversion script, Step 2: options
    CUDA_VISIBLE_DEVICES, allow_multi_gpu, use_rmm_pool, max_day,
    \* the input directory that fs.glob lists
    input_dir,
    \* position of the script
    pc,
    \* Step 4
    client, pool,
    \* Step 5
    file_list, name_list, dsk,
    \* Step 6: the scheduler's view of the tasks and what the tasks did
    scheduler, state, results, writers, raised, runs, result,
    \* the output file system, the log of paths opened for writing, and the
    \* number of calls of cudf.io.merge_parquet_filemetadata
    out_fs, wrote, mergeCalls,
    \* direct call of _write_metadata: its md_list argument
    call_md,
    \* Criteo example: os.listdir(INPUT_DATA_DIR) and the three results
    listing, num_days, train_paths, valid_paths

optVars == <<CUDA_VISIBLE_DEVICES, allow_multi_gpu, use_rmm_pool, max_day, input_dir>>
clusterVars == <<client, pool>>
graphVars == <<file_list, name_list, dsk>>
runVars == <<scheduler, state, results, writers, raised, runs, result>>
fsVars == <<out_fs, wrote, mergeCalls>>
splitVars == <<listing, num_days, train_paths, valid_paths>>
vars == <<optVars, pc, clusterVars, graphVars, runVars, fsVars, call_md, splitVars>>

\* ----------------------------------------------------------------- helpers
None == <<>>
Some(n) == <<n>>

Min(a, b) == IF a < b THEN a ELSE b
Max(a, b) == IF a > b THEN a ELSE b

\* range(n) as the sequence 0, 1, .., n-1
Range(n) == [i \in 1..Max(n, 0) |-> i - 1]

\* all sequences over S of length lo..hi
SeqsOf(S, lo, hi) == UNION {[1..n -> S] : n \in lo..hi}

\* ------------------------------------------------- Step 2: options (54-61)
\* the character that names device i
Digit(i) == <<"0", "1", "2", "3", "4", "5", "6", "7", "8", "9">>[i + 1]

\* "0", "0,1", "0,1,2", .. : the first k devices separated by commas
RECURSIVE DevList(_)
DevList(k) == IF k <= 1 THEN <<Digit(0)>> ELSE DevList(k - 1) \o <<",", Digit(k - 1)>>

\* the value of the environment variable: a list of 1..MaxDevices devices
\* ("0" is also the default when the variable is not set)
DevStrings == {DevList(k) : k \in 1..MaxDevices}

\* str.split(","): the fields between the commas, empty fields included
RECURSIVE Split(_)
Split(s) ==
    IF \A i \in DOMAIN s : s[i] # ","
    THEN <<s>>
    ELSE LET c == CHOOSE i \in DOMAIN s :
                      s[i] = "," /\ \A j \in 1..(i - 1) : s[j] # ","
         IN <<SubSeq(s, 1, c - 1)>> \o Split(SubSeq(s, c + 1, Len(s)))

n_workers == Len(Split(CUDA_VISIBLE_DEVICES))

\* Python truth value of the max_day option: None and 0 are false
Truthy(m) == m # None /\ m[1] # 0

MaxDayOpts == {None} \cup {Some(n) : n \in 0..MaxDayOpt}

\* ------------------------------------------------------ the input directory
Days == 0..MaxDayIdx
RawFile(d) == <<"day_", d, <<>>>>
PqFile(d) == <<"day_", d, <<".parquet">>>>
MetaFile == <<"_metadata">>
INPUT_PATH == "INPUT_PATH"
OUTPUT_PATH == "OUTPUT_PATH"

\* a directory holds any of the raw day files; the full one may also hold
\* an already converted day_0.parquet
InputDirs ==
    {{RawFile(d) : d \in raw} : raw \in SUBSET Days}
    \cup {{RawFile(d) : d \in Days} \cup {PqFile(0)}}

\* ---------------------------------------- Step 5: file selection (150-157)
\* x.endswith("parquet")
EndsWithParquet(f) == Len(f) = 3 /\ f[3] # <<>> /\ f[3][Len(f[3])] = ".parquet"

\* fs.glob(INPUT_PATH/day_*) without the names that end in "parquet"
Globbed(dir) == {<<INPUT_PATH, f>> : f \in {g \in dir : ~EndsWithParquet(g)}}

\* sorted(.., key=natural_sort_key): the digits of a name compare as a number
RECURSIVE NaturalSorted(_)
NaturalSorted(S) ==
    IF S = {} THEN <<>>
    ELSE LET first == CHOOSE p \in S : \A q \in S : p[2][2] <= q[2][2]
         IN <<first>> \o NaturalSorted(S \ {first})

\* the Python slice s[:m]
SliceTo(s, m) ==
    IF m >= 0 THEN SubSeq(s, 1, Min(m, Len(s)))
    ELSE SubSeq(s, 1, Max(Len(s) + m, 0))

\* file_list[:max_day] if max_day else file_list
Truncated(fl, m) == IF Truthy(m) THEN SliceTo(fl, m[1]) ELSE fl

SelectFiles(dir, m) == Truncated(NaturalSorted(Globbed(dir)), m)

\* _analyze_paths(file_list, fs)[1]: every path relative to the directory
\* the paths share.  The function belongs to the scheduler library; finding
\* the shared directory it reads file_list[0], so on an empty list it may
\* raise instead of returning no names.
AnalyzePathsMayRaise(fl) == fl = <<>>
AnalyzePaths(fl) == [i \in DOMAIN fl |-> fl[i][2]]

\* ------------------------------------------- Step 5: task graph (170-185)
convert_file_name == "convert_file"
write_meta_name == <<"write-metadata">>
ConvertKey(i) == <<convert_file_name, i>>

\* a variant that gives every convert task the first name
ConvertTasksFirstName(fl, nl) ==
    [k \in {ConvertKey(i) : i \in 0..(Min(Len(fl), Len(nl)) - 1)} |->
        [fn |-> "_convert_file", path |-> fl[k[2] + 1], name |-> nl[1],
         out_dir |-> OUTPUT_PATH]]

\* for i, (path, name) in enumerate(zip(file_list, name_list)): dsk[key] = ..
ConvertTasks(fl, nl) ==
    [k \in {ConvertKey(i) : i \in 0..(Min(Len(fl), Len(nl)) - 1)} |->
        [fn |-> "_convert_file", path |-> fl[k[2] + 1], name |-> nl[k[2] + 1],
         out_dir |-> OUTPUT_PATH]]

\* a variant that leaves the last convert key out of the list
MetaDepsShort(fl) ==
    [j \in DOMAIN Range(Len(fl) - 1) |-> ConvertKey(Range(Len(fl) - 1)[j])]

\* [(convert_file_name, i) for i in range(len(file_list))]
MetaDeps(fl) == [j \in DOMAIN Range(Len(fl)) |-> ConvertKey(Range(Len(fl))[j])]

MetaTask(fl) == [fn |-> "_write_metadata", md_list |-> MetaDeps(fl), path |-> OUTPUT_PATH]

BuildGraph(fl, nl) ==
    [k \in DOMAIN ConvertTasks(fl, nl) \cup {write_meta_name} |->
        IF k = write_meta_name THEN MetaTask(fl) ELSE ConvertTasks(fl, nl)[k]]

\* the keys a task reads
DepsOf(g, k) ==
    IF g[k].fn = "_write_metadata"
    THEN {g[k].md_list[j] : j \in DOMAIN g[k].md_list}
    ELSE {}

\* Delayed(write_meta_name, graph): the keys the result needs
RECURSIVE Closure(_, _)
Closure(g, ks) ==
    LET more == ks \cup UNION {DepsOf(g, k) : k \in ks \cap DOMAIN g}
    IN IF more = ks THEN ks ELSE Closure(g, more)

Needed(g) == Closure(g, {write_meta_name}) \cap DOMAIN g

\* ------------------------------------------ Step 3: task functions (83-106)
\* fn = f"{name}.parquet"
ParquetName(name) == <<name[1], name[2], Append(name[3], ".parquet")>>

\* out_path = fs.sep.join([out_dir, f"{name}.parquet"])
OutPath(task) == <<task.out_dir, ParquetName(task.name)>>

\* writer.close(metadata_file_path=fn): the metadata of one file, a list of
\* one entry per file naming the file and its row groups
ClosedMetadata(task, rgs) == <<[file |-> ParquetName(task.name), rgs |-> rgs]>>

\* a variant that catches the exception and returns None
OnConvertExceptionSwallowed == "finished"

\* an exception inside _convert_file is not caught there: the task errs
OnConvertException == "erred"

\* cudf.io.merge_parquet_filemetadata: the entries of all elements, in order
RECURSIVE MergeMetadata(_)
MergeMetadata(md_list) ==
    IF md_list = <<>> THEN <<>>
    ELSE md_list[1] \o MergeMetadata(Tail(md_list))

\* a variant that never merges
MetaBlobFirst(md_list) == md_list[1]

\* _meta = merge(md_list) if len(md_list) > 1 else md_list[0]
MetaBlob(md_list) ==
    IF Len(md_list) > 1 THEN MergeMetadata(md_list) ELSE md_list[1]

MetadataPath(path) == <<path, MetaFile>>

\* _write_metadata(md_list, fs, path) on the file system fs, the log of
\* opened paths and the count of merge calls: what it returns and leaves
WriteMetadata(md_list, fs, log, merges, path) ==
    IF md_list # <<>>
    THEN [ret |-> TRUE,
          fs |-> (MetadataPath(path) :> [kind |-> "metadata", md |-> MetaBlob(md_list),
                                         closed |-> TRUE]) @@ fs,
          wrote |-> Append(log, MetadataPath(path)),
          merges |-> IF Len(md_list) > 1 THEN merges + 1 ELSE merges]
    ELSE [ret |-> TRUE, fs |-> fs, wrote |-> log, merges |-> merges]

\* how the notebook shows a returned value
Repr(v) == IF v = TRUE THEN "True" ELSE "False"

\* ------------------------------------------------------ Step 4 (122-134)
NoClient == [kind |-> "None", n_workers |-> 0]
ClientOf(n) == [kind |-> "Client", n_workers |-> n]

\* a variant that accepts a single worker
ClusterWantedAny == n_workers >= 1 /\ allow_multi_gpu

\* if n_workers > 1 and allow_multi_gpu:
ClusterWanted == n_workers > 1 /\ allow_multi_gpu

Step4 ==
    /\ pc = "step4"
    /\ IF ClusterWanted
       THEN /\ client' = ClientOf(n_workers)
            /\ pool' = IF use_rmm_pool THEN "workers" ELSE "none"
       ELSE /\ client' = NoClient
            /\ pool' = IF use_rmm_pool THEN "process" ELSE "none"
    /\ pc' = "step5"
    /\ UNCHANGED <<optVars, graphVars, runVars, fsVars, call_md, splitVars>>

\* ------------------------------------------------------ Step 5 (150-185)
Step5 ==
    /\ pc = "step5"
    /\ file_list' = SelectFiles(input_dir, max_day)
    /\ \/ /\ AnalyzePathsMayRaise(file_list')
          /\ pc' = "error"
          /\ UNCHANGED <<name_list, dsk>>
       \/ /\ name_list' = AnalyzePaths(file_list')
          /\ dsk' = BuildGraph(file_list', name_list')
          /\ pc' = "step6"
    /\ UNCHANGED <<optVars, clusterVars, runVars, fsVars, call_md, splitVars>>

\* ------------------------------------------------------ Step 6 (201-205)
\* if client: compute() else: compute(scheduler="synchronous")
SchedulerFor(c) == IF c # NoClient THEN "distributed" ELSE "synchronous"

Step6 ==
    /\ pc = "step6"
    /\ scheduler' = SchedulerFor(client)
    /\ state' = [k \in DOMAIN dsk |-> IF k \in Needed(dsk) THEN "waiting" ELSE "culled"]
    /\ runs' = [k \in DOMAIN dsk |-> 0]
    /\ pc' = "computing"
    /\ UNCHANGED <<optVars, clusterVars, graphVars, results, writers, raised, result,
                   fsVars, call_md, splitVars>>

\* the scheduler: a task starts when every key it reads has finished and a
\* worker is free (one thread when synchronous, one per worker otherwise)
Running == {k \in DOMAIN state : state[k] = "running"}
Capacity == IF scheduler = "synchronous" THEN 1 ELSE client.n_workers

CanStart(k) ==
    /\ pc = "computing"
    /\ state[k] = "waiting"
    /\ \A d \in DepsOf(dsk, k) : state[d] = "finished"
    /\ Cardinality(Running) < Capacity

\* tasks already on a worker go on after compute() has raised on a cluster
Active ==
    \/ pc = "computing"
    \/ pc = "done" /\ scheduler = "distributed" /\ result = "raised"

IsConvert(k) == dsk[k].fn = "_convert_file"

\* the keys that read k, directly or through others
Dependents(k) == {j \in DOMAIN dsk : j # k /\ k \in Closure(dsk, {j})}

\* the scheduler hands the task to a worker, which calls _convert_file
ConvertStart(k) ==
    /\ IsConvert(k)
    /\ CanStart(k)
    /\ state' = [state EXCEPT ![k] = "running"]
    /\ runs' = [runs EXCEPT ![k] = @ + 1]
    /\ UNCHANGED <<optVars, pc, clusterVars, graphVars, scheduler, results, writers,
                   raised, result, fsVars, call_md, splitVars>>

\* writer = ParquetWriter(out_path, compression=None)
ConvertOpen(k) ==
    /\ Active
    /\ IsConvert(k)
    /\ state[k] = "running"
    /\ k \notin DOMAIN writers
    /\ writers' = (k :> [path |-> OutPath(dsk[k])]) @@ writers
    /\ out_fs' = (OutPath(dsk[k]) :> [kind |-> "data", rgs |-> 0, closed |-> FALSE]) @@ out_fs
    /\ wrote' = Append(wrote, OutPath(dsk[k]))
    /\ UNCHANGED <<optVars, pc, clusterVars, graphVars, scheduler, state, results, raised,
                   runs, result, mergeCalls, call_md, splitVars>>

\* for gdf in GPUFileIterator(..): writer.write_table(gdf)
ConvertWrite(k) ==
    /\ Active
    /\ k \in DOMAIN writers
    /\ IsConvert(k)
    /\ state[k] = "running"
    /\ out_fs[writers[k].path].rgs < ChunksPerFile
    /\ out_fs' = [out_fs EXCEPT ![writers[k].path].rgs = @ + 1]
    /\ UNCHANGED <<optVars, pc, clusterVars, graphVars, runVars, wrote, mergeCalls,
                   call_md, splitVars>>

\* md = writer.close(metadata_file_path=fn); return md
ConvertClose(k) ==
    /\ Active
    /\ k \in DOMAIN writers
    /\ IsConvert(k)
    /\ state[k] = "running"
    /\ out_fs[writers[k].path].rgs = ChunksPerFile
    /\ out_fs' = [out_fs EXCEPT ![writers[k].path].closed = TRUE]
    /\ writers' = [j \in DOMAIN writers \ {k} |-> writers[j]]
    /\ results' = (k :> ClosedMetadata(dsk[k], out_fs[writers[k].path].rgs)) @@ results
    /\ state' = [state EXCEPT ![k] = "finished"]
    /\ UNCHANGED <<optVars, pc, clusterVars, graphVars, scheduler, raised, runs, result,
                   wrote, mergeCalls, call_md, splitVars>>

\* ParquetWriter(..), the iterator or the writer raises inside
\* _convert_file, before or after the writer exists.  Under the synchronous
\* scheduler the task runs in the thread of compute(), which raises with it;
\* on a cluster the task errs on its worker and the rest follows later.
ConvertRaise(k) ==
    /\ Active
    /\ IsConvert(k)
    /\ state[k] = "running"
    /\ raised' = raised \cup {k}
    /\ state' = [state EXCEPT ![k] = OnConvertException]
    /\ IF OnConvertException = "erred"
       THEN /\ IF scheduler = "synchronous"
               THEN pc' = "done" /\ result' = "raised"
               ELSE UNCHANGED <<pc, result>>
            /\ UNCHANGED results
       ELSE /\ results' = (k :> None) @@ results
            /\ UNCHANGED <<pc, result>>
    /\ UNCHANGED <<optVars, clusterVars, graphVars, scheduler, writers, runs,
                   fsVars, call_md, splitVars>>

\* on a cluster the scheduler passes the error of a task on to the tasks
\* that read it
SchedulerPassError(k) ==
    /\ Active
    /\ scheduler = "distributed"
    /\ state[k] = "erred"
    /\ \E j \in Dependents(k) : state[j] = "waiting"
    /\ state' = [j \in DOMAIN state |->
                    IF j \in Dependents(k) /\ state[j] = "waiting" THEN "erred" ELSE state[j]]
    /\ UNCHANGED <<optVars, pc, clusterVars, graphVars, scheduler, results, writers,
                   raised, runs, result, fsVars, call_md, splitVars>>

\* on a cluster compute() raises in the notebook once the key it waits for
\* has erred
ComputeRaise ==
    /\ pc = "computing"
    /\ scheduler = "distributed"
    /\ state[write_meta_name] = "erred"
    /\ pc' = "done"
    /\ result' = "raised"
    /\ UNCHANGED <<optVars, clusterVars, graphVars, scheduler, state, results, writers,
                   raised, runs, fsVars, call_md, splitVars>>

\* the results of the keys in the task's md_list, in order
MetaArgs(k) == [j \in DOMAIN dsk[k].md_list |-> results[dsk[k].md_list[j]]]

\* _write_metadata up to fs.open(metadata_path, "wb")
MetaStart(k) ==
    /\ ~IsConvert(k)
    /\ CanStart(k)
    /\ state' = [state EXCEPT ![k] = "running"]
    /\ runs' = [runs EXCEPT ![k] = @ + 1]
    /\ LET r == WriteMetadata(MetaArgs(k), out_fs, wrote, mergeCalls, dsk[k].path)
       IN /\ wrote' = r.wrote
          /\ mergeCalls' = r.merges
          /\ IF MetaArgs(k) # <<>>
             THEN /\ writers' = (k :> [path |-> MetadataPath(dsk[k].path)]) @@ writers
                  /\ out_fs' = (MetadataPath(dsk[k].path) :>
                                   [kind |-> "metadata", md |-> <<>>, closed |-> FALSE]) @@ out_fs
             ELSE UNCHANGED <<writers, out_fs>>
    /\ UNCHANGED <<optVars, pc, clusterVars, graphVars, scheduler, results, raised,
                   result, call_md, splitVars>>

\* _meta.tofile(fil), the file is closed, return True; compute() returns
MetaFinish(k) ==
    /\ pc = "computing"
    /\ ~IsConvert(k)
    /\ state[k] = "running"
    /\ LET r == WriteMetadata(MetaArgs(k), out_fs, wrote, mergeCalls, dsk[k].path)
       IN /\ out_fs' = r.fs
          /\ results' = (k :> r.ret) @@ results
          /\ result' = Repr(r.ret)
    /\ writers' = [j \in DOMAIN writers \ {k} |-> writers[j]]
    /\ state' = [state EXCEPT ![k] = "finished"]
    /\ pc' = "done"
    /\ UNCHANGED <<optVars, clusterVars, graphVars, scheduler, raised, runs,
                   wrote, mergeCalls, call_md, splitVars>>

\* ------------------------------------------------------- the script, whole
NoSplit == [listing |-> {}, num_days |-> 0, train_paths |-> <<>>, valid_paths |-> <<>>]

SplitIdle ==
    /\ listing = NoSplit.listing
    /\ num_days = NoSplit.num_days
    /\ train_paths = NoSplit.train_paths
    /\ valid_paths = NoSplit.valid_paths

ScriptIdle ==
    /\ client = NoClient
    /\ pool = "none"
    /\ file_list = <<>>
    /\ name_list = <<>>
    /\ dsk = <<>>
    /\ scheduler = "none"
    /\ state = <<>>
    /\ results = <<>>
    /\ writers = <<>>
    /\ raised = {}
    /\ runs = <<>>
    /\ result = "pending"
    /\ wrote = <<>>
    /\ mergeCalls = 0

Init ==
    /\ CUDA_VISIBLE_DEVICES \in DevStrings
    /\ allow_multi_gpu \in BOOLEAN
    /\ use_rmm_pool \in BOOLEAN
    /\ max_day \in MaxDayOpts
    /\ input_dir \in InputDirs
    /\ pc = "step4"
    /\ ScriptIdle
    /\ out_fs = <<>>
    /\ call_md = <<>>
    /\ SplitIdle

Next ==
    \/ Step4
    \/ Step5
    \/ Step6
    \/ \E k \in DOMAIN dsk : ConvertStart(k)
    \/ \E k \in DOMAIN dsk : ConvertOpen(k)
    \/ \E k \in DOMAIN dsk : ConvertWrite(k)
    \/ \E k \in DOMAIN dsk : ConvertClose(k)
    \/ \E k \in DOMAIN dsk : ConvertRaise(k)
    \/ \E k \in DOMAIN dsk : SchedulerPassError(k)
    \/ ComputeRaise
    \/ \E k \in DOMAIN dsk : MetaStart(k)
    \/ \E k \in DOMAIN dsk : MetaFinish(k)

Spec == Init /\ [][Next]_vars

\* ------------------------------------- _write_metadata called on its own
\* the metadata a closed writer returns for one day file
Blobs == {<<[file |-> PqFile(d), rgs |-> n]>> : d \in Days, n \in 1..ChunksPerFile}

\* the output directory before the call: empty, or holding an earlier
\* _metadata and a data file
StaleFs ==
    (MetadataPath(OUTPUT_PATH) :> [kind |-> "metadata", md |-> <<>>, closed |-> TRUE])
    @@ (<<OUTPUT_PATH, PqFile(0)>> :> [kind |-> "data", rgs |-> 0, closed |-> TRUE])

InitMeta ==
    /\ CUDA_VISIBLE_DEVICES = <<"0">>
    /\ allow_multi_gpu = FALSE
    /\ use_rmm_pool = FALSE
    /\ max_day = None
    /\ input_dir = {}
    /\ pc = "call"
    /\ ScriptIdle
    /\ out_fs \in {<<>>, StaleFs}
    /\ call_md \in SeqsOf(Blobs, 0, MaxMdLen)
    /\ SplitIdle

CallWriteMetadata ==
    /\ pc = "call"
    /\ LET r == WriteMetadata(call_md, out_fs, wrote, mergeCalls, OUTPUT_PATH)
       IN /\ out_fs' = r.fs
          /\ wrote' = r.wrote
          /\ mergeCalls' = r.merges
          /\ result' = Repr(r.ret)
    /\ pc' = "returned"
    /\ UNCHANGED <<optVars, clusterVars, graphVars, scheduler, state, results, writers,
                   raised, runs, call_md, splitVars>>

NextMeta == CallWriteMetadata

SpecMeta == InitMeta /\ [][NextMeta]_vars

\* ------------------------------- Criteo example: train and validation paths
INPUT_DATA_DIR == "INPUT_DATA_DIR"

\* re.match('day_[0-9]{1,2}.parquet', i): "day_", one or two digits, then
\* ".parquet"; whatever follows is not looked at
MatchesFname(f) ==
    /\ Len(f) = 3
    /\ f[1] = "day_"
    /\ f[2] \in 0..99
    /\ f[3] # <<>>
    /\ f[3][1] = ".parquet"

\* num_days = len([i for i in os.listdir(INPUT_DATA_DIR) if re.match(..)])
CountDays(dir) == Cardinality({f \in dir : MatchesFname(f)})

\* os.path.join(INPUT_DATA_DIR, fname.format(day))
DayPath(day) == <<INPUT_DATA_DIR, PqFile(day)>>

\* [.. for day in range(NUM_TRAIN_DAYS)]
TrainPaths == [j \in DOMAIN Range(NUM_TRAIN_DAYS) |-> DayPath(Range(NUM_TRAIN_DAYS)[j])]

\* [.. for day in range(NUM_TRAIN_DAYS, num_days)]
ValidPaths(n) ==
    [j \in 1..Max(n - NUM_TRAIN_DAYS, 0) |-> DayPath(NUM_TRAIN_DAYS + j - 1)]

\* directories: day_0 .. day_(n-1).parquet, possibly with one day missing,
\* one leftover day_0.parquet.tmp, or an unconverted day_0
Listings ==
    {({PqFile(d) : d \in 0..(n - 1)} \ gap) \cup extra :
        n \in 0..MaxListedDays,
        gap \in {{}} \cup {{PqFile(g)} : g \in 0..MaxListedDays},
        extra \in {{}, {<<"day_", 0, <<".parquet", ".tmp">>>>}, {RawFile(0)}}}

InitSplit ==
    /\ CUDA_VISIBLE_DEVICES = <<"0">>
    /\ allow_multi_gpu = FALSE
    /\ use_rmm_pool = FALSE
    /\ max_day = None
    /\ input_dir = {}
    /\ pc = "cell"
    /\ ScriptIdle
    /\ out_fs = <<>>
    /\ call_md = <<>>
    /\ listing \in Listings
    /\ num_days = NoSplit.num_days
    /\ train_paths = NoSplit.train_paths
    /\ valid_paths = NoSplit.valid_paths

SplitPaths ==
    /\ pc = "cell"
    /\ num_days' = CountDays(listing)
    /\ train_paths' = TrainPaths
    /\ valid_paths' = ValidPaths(num_days')
    /\ pc' = "split"
    /\ UNCHANGED <<optVars, clusterVars, graphVars, runVars, fsVars, call_md, listing>>

NextSplit == SplitPaths

SpecSplit == InitSplit /\ [][NextSplit]_vars

\* ================================================================== claims
GraphBuilt == pc \in {"step6", "computing", "done"}
ConvertKeys == {k \in DOMAIN dsk : dsk[k].fn = "_convert_file"}
MetaKeys == {k \in DOMAIN dsk : dsk[k].fn = "_write_metadata"}
TheMetaKey == <<"write-metadata">>
TheMetadataPath == <<"OUTPUT_PATH", <<"_metadata">>>>

\* C1: once Step 5 has built the graph for a file list of length N, the graph
\* holds exactly the N convert tasks keyed (convert_file_name, 0..N-1), task i
\* is given the i-th path and the i-th name, there is exactly one
\* write-metadata task, its dependency list is the N convert keys in order,
\* and no convert task depends on anything (a fan-in of depth two).
C1_GraphShape ==
    GraphBuilt =>
        LET N == Len(file_list) IN
        /\ ConvertKeys = {<<"convert_file", i>> : i \in 0..(N - 1)}
        /\ Cardinality(ConvertKeys) = N
        /\ \A i \in 0..(N - 1) :
              /\ dsk[<<"convert_file", i>>].path = file_list[i + 1]
              /\ dsk[<<"convert_file", i>>].name = name_list[i + 1]
        /\ MetaKeys = {TheMetaKey}
        /\ DOMAIN dsk = ConvertKeys \cup MetaKeys
        /\ Len(dsk[TheMetaKey].md_list) = N
        /\ \A j \in 1..N : dsk[TheMetaKey].md_list[j] = <<"convert_file", j - 1>>
        /\ \A k \in ConvertKeys : DepsOf(dsk, k) = {}
        /\ DepsOf(dsk, TheMetaKey) = ConvertKeys

\* a graph has been built for two input files
C1_Witness == pc = "step6" /\ Len(file_list) = 2 /\ Cardinality(DOMAIN dsk) = 3

\* C2 (as stated): when compute() has ended, the write-metadata task started
\* only after every convert task had finished and _write_metadata has run
\* exactly once.
C2_MetaRunsExactlyOnce ==
    pc = "done" =>
        /\ state[TheMetaKey] \in {"running", "finished"} =>
              \A k \in ConvertKeys : state[k] = "finished"
        /\ runs[TheMetaKey] = 1

\* C2 (amended): the write-metadata task starts only after every convert task
\* of the graph has finished; _metadata is never open for writing while a
\* Parquet writer is unclosed; _write_metadata never runs twice, has run
\* exactly once when compute() returns, and has not run when compute() raises.
C2_MetaAfterConverts ==
    state # <<>> =>
        /\ state[TheMetaKey] \in {"running", "finished"} =>
              \A k \in ConvertKeys : state[k] = "finished"
        /\ (\E j \in DOMAIN wrote : wrote[j] = TheMetadataPath) =>
              \A k \in DOMAIN writers : ~IsConvert(k)
        /\ (TheMetaKey \in DOMAIN writers) => DOMAIN writers = {TheMetaKey}
        /\ runs[TheMetaKey] <= 1
        /\ result = "True" => runs[TheMetaKey] = 1
        /\ result = "raised" => runs[TheMetaKey] = 0
        /\ Cardinality({j \in DOMAIN wrote : wrote[j] = TheMetadataPath}) <= 1

\* on a cluster, compute() has returned after two or more conversions
C2_Witness ==
    /\ scheduler = "distributed"
    /\ result = "True"
    /\ Len(file_list) >= 2
    /\ TheMetadataPath \in DOMAIN out_fs

\* C3 (as stated): with max_day set the converted file list is exactly the
\* naturally sorted input files of days 0..max_day, and with max_day not set
\* it is every matched input file.
C3_DaysUpToMaxDay ==
    pc \in {"step6", "computing", "done", "error"} =>
        LET matched == {f \in input_dir : f[3] = <<>>}
            wanted == IF max_day = None THEN matched
                      ELSE {f \in matched : f[2] <= max_day[1]}
        IN /\ {file_list[j] : j \in DOMAIN file_list} = {<<"INPUT_PATH", f>> : f \in wanted}
           /\ Len(file_list) = Cardinality(wanted)
           /\ \A a, b \in DOMAIN file_list : a < b => file_list[a][2][2] < file_list[b][2][2]

\* CUDA_VISIBLE_DEVICES names more than one device
ListsSeveralDevices ==
    \E i, j \in DOMAIN CUDA_VISIBLE_DEVICES :
        /\ CUDA_VISIBLE_DEVICES[i] # ","
        /\ CUDA_VISIBLE_DEVICES[j] # ","
        /\ CUDA_VISIBLE_DEVICES[i] # CUDA_VISIBLE_DEVICES[j]

\* C4: a cluster and client exist iff allow_multi_gpu is True and
\* CUDA_VISIBLE_DEVICES lists more than one device; otherwise client is None,
\* the scheduler is the synchronous one, and at most one convert task is
\* running (at most one writer is open) at any time.
C4_ClusterIffMultiGpu ==
    pc \notin {"step4", "call", "cell", "returned", "split"} =>
        /\ (client.kind = "Client") <=> (allow_multi_gpu /\ ListsSeveralDevices)
        /\ (client.kind = "None" /\ scheduler # "none") =>
              /\ scheduler = "synchronous"
              /\ Cardinality({k \in ConvertKeys : state[k] = "running"}) <= 1
              /\ Cardinality(DOMAIN writers) <= 1
        /\ (client.kind = "Client" /\ scheduler # "none") => scheduler = "distributed"

\* multi-GPU allowed but one device: one conversion runs, another waits
C4_Witness ==
    /\ allow_multi_gpu
    /\ client.kind = "None"
    /\ scheduler = "synchronous"
    /\ \E k \in ConvertKeys : state[k] = "running"
    /\ \E k \in ConvertKeys : state[k] = "waiting"

\* C5 (as stated): train_paths and valid_paths are disjoint, every path names
\* a day_N.parquet file present in INPUT_DATA_DIR, and their union is exactly
\* the set of day files counted by num_days.
C5_SplitCoversDayFiles ==
    pc = "split" =>
        LET train == {train_paths[j] : j \in DOMAIN train_paths}
            valid == {valid_paths[j] : j \in DOMAIN valid_paths}
            counted == {f \in listing : MatchesFname(f)}
        IN /\ train \cap valid = {}
           /\ \A p \in train \cup valid : p[2] \in listing /\ p[2][3] = <<".parquet">>
           /\ train \cup valid = {<<"INPUT_DATA_DIR", f>> : f \in counted}
           /\ Cardinality(counted) = num_days

\* the number of entries of the first n elements of md_list
RECURSIVE EntriesBefore(_, _)
EntriesBefore(md_list, n) ==
    IF n <= 1 THEN 0 ELSE EntriesBefore(md_list, n - 1) + Len(md_list[n - 1])

\* blob holds the entries of every element of md_list, in order, and no more
HoldsAll(blob, md_list) ==
    /\ Len(blob) = EntriesBefore(md_list, Len(md_list) + 1)
    /\ \A i \in DOMAIN md_list : \A j \in DOMAIN md_list[i] :
          blob[EntriesBefore(md_list, i) + j] = md_list[i][j]

\* C6: _write_metadata returns True for every md_list; it opens exactly one
\* file, <path>/_metadata, iff md_list is non-empty; one element is written
\* unchanged and without a merge, several are written merged, and an empty
\* md_list writes nothing.
C6_WriteMetadata ==
    pc = "returned" =>
        /\ result = "True"
        /\ call_md # <<>> <=> wrote = <<TheMetadataPath>>
        /\ call_md = <<>> => wrote = <<>> /\ mergeCalls = 0 /\ out_fs \in {<<>>, StaleFs}
        /\ Len(call_md) = 1 =>
              /\ out_fs[TheMetadataPath].md = call_md[1]
              /\ mergeCalls = 0
        /\ Len(call_md) > 1 =>
              /\ HoldsAll(out_fs[TheMetadataPath].md, call_md)
              /\ mergeCalls = 1
        /\ \A p \in DOMAIN out_fs \ {TheMetadataPath} :
              p \in DOMAIN StaleFs /\ out_fs[p] = StaleFs[p]

\* the call has returned for a list of three different elements
C6_Witness ==
    /\ pc = "returned"
    /\ Len(call_md) = 3
    /\ call_md[1] # call_md[2]
    /\ Len(out_fs[TheMetadataPath].md) = 3

\* the error of a task is on its way to compute()
ErrorOnItsWay == ComputeRaise \/ \E k \in DOMAIN dsk : SchedulerPassError(k)

\* C7: no task is started twice, and once a convert task has raised the
\* write-metadata task has not run and does not run, no _metadata is written,
\* and compute() does not return True: it has raised, or (on a cluster) the
\* error is on its way to it, and when it has ended it has ended in an error.
C7_NoRetryNoMetadata ==
    state # <<>> =>
        /\ \A k \in DOMAIN runs : runs[k] <= 1
        /\ raised # {} =>
              /\ runs[TheMetaKey] = 0
              /\ state[TheMetaKey] \notin {"running", "finished"}
              /\ TheMetadataPath \notin DOMAIN out_fs
              /\ \A j \in DOMAIN wrote : wrote[j] # TheMetadataPath
              /\ result # "True"
              /\ pc = "done" => result = "raised"
              /\ pc # "done" => ENABLED ErrorOnItsWay
              /\ scheduler = "synchronous" => pc = "done"

\* one conversion has raised after another one finished
C7_Witness ==
    /\ raised # {}
    /\ \E k \in ConvertKeys : state[k] = "finished"
    /\ \E k \in ConvertKeys : state[k] = "erred" /\ runs[k] = 1
    /\ \E k \in raised : k \notin DOMAIN writers
    /\ result = "raised"

====
